---- MODULE Spec2Model ----
(***************************************************************************)
(* A model of scripts/pdf_to_hl7.py: the field extractor, the HL7 message  *)
(* builder and the command-line driver.                                    *)
(*                                                                         *)
(* A Python str is modelled as a sequence of one-character strings, so     *)
(* that replace, strip, split, join and the regular expressions of the     *)
(* source can be computed character by character.  None is a value that    *)
(* is not a sequence of characters.                                        *)
(***************************************************************************)
EXTENDS Integers, Sequences, FiniteSets, TLC

VARIABLES
    pc,           \* position of the run (or of the call, for a function)
    argc,         \* len(sys.argv)
    env,          \* the environment of the run: input file, PDF library
    text,         \* what extract_text_from_pdf produced (or Raised)
    fields,       \* the locals of extract_patient_data after extract_field
    result,       \* the ExtractionResult
    patient,      \* the PatientData handed to build_hl7_message
    options,      \* the HL7Options handed to build_hl7_message
    pdf_bytes,    \* the binary content of the document
    segments,     \* the list `segments` of build_hl7_message
    hl7_message,  \* the message returned by build_hl7_message
    clock,        \* the system clock, in seconds
    exit_code,    \* the argument of sys.exit
    arg,          \* the argument of a function called on its own
    ret           \* its return value

vars == <<pc, argc, env, text, fields, result, patient, options, pdf_bytes,
          segments, hl7_message, clock, exit_code, arg, ret>>

(***************************************************************************)
(* Bounds of the model.                                                    *)
(***************************************************************************)
MaxLen == 5        \* longest string handed to escape_hl7 on its own
MaxPages == 2      \* most pages of a document
MaxBytes == 3      \* most bytes of binary content
MaxClock == 1      \* latest second the clock reaches

(***************************************************************************)
(* Python values and str methods.                                          *)
(***************************************************************************)
None == <<"None">>
Raised == <<"Raised">>
NotRun == <<"NotRun">>

\* Python truthiness of an Optional[str]
Truthy(s) == s # None /\ s # <<>>

Whitespace == {" ", "\t", "\n", "\r", "\f"}
Digits == {"0", "1", "2", "3", "4", "5", "6", "7", "8", "9"}
UpperCase == <<"A", "B", "C", "D", "E", "F", "G", "H", "I", "J", "K", "L", "M",
               "N", "O", "P", "Q", "R", "S", "T", "U", "V", "W", "X", "Y", "Z">>
LowerCase == <<"a", "b", "c", "d", "e", "f", "g", "h", "i", "j", "k", "l", "m",
               "n", "o", "p", "q", "r", "s", "t", "u", "v", "w", "x", "y", "z">>
Letters == {UpperCase[i] : i \in 1..26} \cup {LowerCase[i] : i \in 1..26}

IsSpace(c) == c \in Whitespace
IsDigit(c) == c \in Digits
IsLetter(c) == c \in Letters

Lower(c) ==
    IF \E i \in 1..26 : UpperCase[i] = c
    THEN LowerCase[CHOOSE i \in 1..26 : UpperCase[i] = c]
    ELSE c

Min(S) == CHOOSE x \in S : \A y \in S : x <= y
Max(S) == CHOOSE x \in S : \A y \in S : x >= y

\* s[i:] and s[i:j] with 1-based, inclusive positions
From(s, i) == SubSeq(s, i, Len(s))

\* str.replace(old, new): leftmost non-overlapping occurrences, one pass
RECURSIVE Replace(_, _, _)
Replace(s, old, new) ==
    IF Len(s) < Len(old) THEN s
    ELSE IF SubSeq(s, 1, Len(old)) = old
         THEN new \o Replace(From(s, Len(old) + 1), old, new)
         ELSE <<Head(s)>> \o Replace(Tail(s), old, new)

\* str.strip()
RECURSIVE LStrip(_)
LStrip(s) == IF s # <<>> /\ IsSpace(Head(s)) THEN LStrip(Tail(s)) ELSE s
RECURSIVE RStrip(_)
RStrip(s) ==
    IF s # <<>> /\ IsSpace(s[Len(s)]) THEN RStrip(SubSeq(s, 1, Len(s) - 1)) ELSE s
Strip(s) == RStrip(LStrip(s))

\* str.zfill(2)
ZFill2(s) == IF Len(s) < 2 THEN <<"0">> \o s ELSE s

\* sep.join(parts)
RECURSIVE Join(_, _)
Join(sep, parts) ==
    IF parts = <<>> THEN <<>>
    ELSE IF Len(parts) = 1 THEN parts[1]
    ELSE parts[1] \o sep \o Join(sep, Tail(parts))

\* s.split(c) for a one-character separator
RECURSIVE Split(_, _)
Split(s, c) ==
    IF \E i \in 1..Len(s) : s[i] = c
    THEN LET i == Min({j \in 1..Len(s) : s[j] = c})
         IN  <<SubSeq(s, 1, i - 1)>> \o Split(From(s, i + 1), c)
    ELSE <<s>>

\* s.count(c)
Count(s, c) == Cardinality({i \in 1..Len(s) : s[i] = c})

\* all strings over an alphabet up to a length
Strings(alphabet, n) == UNION {[1..k -> alphabet] : k \in 0..n}

(***************************************************************************)
(* HL7 builder: constants and escaping.                                    *)
(***************************************************************************)
FIELD_SEP == <<"|">>
ENCODING_CHARS == <<"^", "~", "\\", "&">>
COMPONENT_SEP == <<"^">>
SEGMENT_TERMINATOR == <<"\r">>

\* the replacements in another order: backslash last
escape_hl7_backslash_last(value) ==
    Replace(Replace(Replace(Replace(Replace(value,
        <<"|">>, <<"\\", "F", "\\">>),
        <<"^">>, <<"\\", "S", "\\">>),
        <<"~">>, <<"\\", "R", "\\">>),
        <<"&">>, <<"\\", "T", "\\">>),
        <<"\\">>, <<"\\", "E", "\\">>)

escape_hl7(value) ==
    Replace(Replace(Replace(Replace(Replace(value,
        <<"\\">>, <<"\\", "E", "\\">>),
        <<"|">>, <<"\\", "F", "\\">>),
        <<"^">>, <<"\\", "S", "\\">>),
        <<"~">>, <<"\\", "R", "\\">>),
        <<"&">>, <<"\\", "T", "\\">>)

(***************************************************************************)
(* Data classes.                                                           *)
(***************************************************************************)
PatientData(first_name, last_name, dob, sex, address, suburb, state, postcode, phone, medicare_no, medicare_ref) ==
    [first_name |-> first_name, last_name |-> last_name, dob |-> dob,
     sex |-> sex, address |-> address, suburb |-> suburb, state |-> state,
     postcode |-> postcode, phone |-> phone, medicare_no |-> medicare_no,
     medicare_ref |-> medicare_ref]

UNKNOWN == <<"U", "N", "K", "N", "O", "W", "N">>
PATIENT == <<"P", "A", "T", "I", "E", "N", "T">>
DefaultDob == <<"1", "9", "0", "0", "0", "1", "0", "1">>
VIC == <<"V", "I", "C">>

\* PatientData() with every field defaulted
default_data ==
    PatientData(UNKNOWN, PATIENT, DefaultDob, <<"U">>, None, None, None, None,
                None, None, None)

\* HL7Options() with every field defaulted
HL7Options ==
    [sending_application |-> <<"M", "E", "D", "I", "H", "O", "S", "T">>,
     sending_facility |-> <<"B", "J", "C", "H", "E", "A", "L", "T", "H">>,
     receiving_application |-> <<"G", "E", "N", "I", "E">>,
     receiving_facility |-> <<"C", "L", "I", "N", "I", "C">>,
     document_title |-> <<"P", "a", "t", "i", "e", "n", "t", " ", "C", "o", "n",
                          "s", "e", "n", "t", " ", "F", "o", "r", "m">>]

\* options = None, the default argument of build_hl7_message
OptionsNone == [is_none |-> TRUE]

\* a or b
Or(a, b) == IF Truthy(a) THEN a ELSE b

(***************************************************************************)
(* HL7 builder: segments.                                                  *)
(***************************************************************************)
DigitChar(n) == <<"0", "1", "2", "3", "4", "5", "6", "7", "8", "9">>[n + 1]

\* datetime.now().strftime("%Y%m%d%H%M%S"), now being the second of the
\* minute 2026-01-01 12:00 that the clock shows
get_hl7_timestamp(now) ==
    <<"2", "0", "2", "6", "0", "1", "0", "1", "1", "2", "0", "0",
      DigitChar(now \div 10), DigitChar(now % 10)>>

generate_message_id(random_suffix, now) ==
    <<"M", "S", "G">> \o get_hl7_timestamp(now) \o random_suffix

\* now1 is the clock at line 265, now2 the clock inside generate_message_id
build_msh(opts, now1, now2, random_suffix) ==
    LET timestamp == get_hl7_timestamp(now1)
        message_id == generate_message_id(random_suffix, now2)
        msh_fields == <<
            <<"M", "S", "H">>,
            ENCODING_CHARS,
            opts.sending_application,
            opts.sending_facility,
            opts.receiving_application,
            opts.receiving_facility,
            timestamp,
            <<>>,
            <<"O", "R", "U", "^", "R", "0", "1">>,
            message_id,
            <<"P">>,
            <<"2", ".", "4">>,
            <<>>,
            <<>>,
            <<"A", "L">>,
            <<"N", "E">>,
            <<"A", "U", "S">>,
            <<"8", "8", "5", "9", "/", "1">> >>
    IN  Join(FIELD_SEP, msh_fields)

build_pid(p) ==
    LET ref == Or(p.medicare_ref, <<"1">>)
        patient_id ==
            IF Truthy(p.medicare_no)
            THEN p.medicare_no \o <<"-">> \o ref
                 \o <<"^", "^", "^", "M", "e", "d", "i", "c", "a", "r", "e",
                      "^", "M", "C">>
            ELSE <<>>
        address_parts == <<
            escape_hl7(Or(p.address, <<>>)),
            <<>>,
            escape_hl7(Or(p.suburb, <<>>)),
            Or(p.state, VIC),
            Or(p.postcode, <<>>),
            <<"A", "U", "S">> >>
        address ==
            IF Truthy(p.address) \/ Truthy(p.suburb)
            THEN Join(COMPONENT_SEP, address_parts)
            ELSE <<>>
        patient_name ==
            escape_hl7(p.last_name) \o COMPONENT_SEP \o escape_hl7(p.first_name)
        pid_fields == <<
            <<"P", "I", "D">>,
            <<"1">>,
            <<>>,
            patient_id,
            <<>>,
            patient_name,
            <<>>,
            p.dob,
            p.sex,
            <<>>,
            <<>>,
            address,
            <<>>,
            IF Truthy(p.phone) THEN escape_hl7(p.phone) ELSE <<>> >>
    IN  Join(FIELD_SEP, pid_fields)

build_pv1 == Join(FIELD_SEP, << <<"P", "V", "1">>, <<"1">>, <<"O">> >>)

\* [""] * n
Empties(n) == [i \in 1..n |-> <<>>]

\* the padding stops one field short
build_obr_short_padding(opts, now) ==
    LET timestamp == get_hl7_timestamp(now)
        report_id == <<"R", "P", "T">> \o timestamp \o <<"^">>
                     \o opts.sending_application
        service_id == <<"P", "D", "F", "^">> \o escape_hl7(opts.document_title)
                      \o <<"^", "L">>
    IN  Join(FIELD_SEP,
             << <<"O", "B", "R">>, <<"1">>, <<>>, report_id, service_id >>
             \o Empties(2) \o <<timestamp>> \o Empties(13) \o <<timestamp>>
             \o Empties(2) \o << <<"F">> >>)

\* now is the clock at line 341, the only reading build_obr makes
build_obr(opts, now) ==
    LET timestamp == get_hl7_timestamp(now)
        report_id == <<"R", "P", "T">> \o timestamp \o <<"^">>
                     \o opts.sending_application
        service_id == <<"P", "D", "F", "^">> \o escape_hl7(opts.document_title)
                      \o <<"^", "L">>
        f1 == << <<"O", "B", "R">>, <<"1">>, <<>>, report_id, service_id >>
        f2 == f1 \o Empties(2)
        f3 == Append(f2, timestamp)
        f4 == f3 \o Empties(14)
        f5 == Append(f4, timestamp)
        f6 == f5 \o Empties(2)
        obr_fields == Append(f6, <<"F">>)
    IN  Join(FIELD_SEP, obr_fields)

build_obx(pdf_base64) ==
    LET observation_id ==
            <<"P", "D", "F", "^", "D", "i", "s", "p", "l", "a", "y", " ", "f",
              "o", "r", "m", "a", "t", " ", "i", "n", " ", "P", "D", "F", "^",
              "A", "U", "S", "P", "D", "I">>
        observation_value ==
            <<"^", "a", "p", "p", "l", "i", "c", "a", "t", "i", "o", "n", "^",
              "p", "d", "f", "^", "B", "a", "s", "e", "6", "4", "^">>
            \o pdf_base64
        obx_fields == <<
            <<"O", "B", "X">>,
            <<"1">>,
            <<"E", "D">>,
            observation_id,
            <<>>,
            observation_value,
            <<>>,
            <<>>,
            <<>>,
            <<>>,
            <<>>,
            <<"F">> >>
    IN  Join(FIELD_SEP, obx_fields)

\* base64.b64encode(b).decode('ascii'): the standard alphabet, '=' padding
B64Alphabet ==
    UpperCase \o LowerCase
    \o <<"0", "1", "2", "3", "4", "5", "6", "7", "8", "9", "+", "/">>

B64Char(n) == B64Alphabet[n + 1]

RECURSIVE b64encode(_)
b64encode(b) ==
    IF Len(b) = 0 THEN <<>>
    ELSE IF Len(b) = 1 THEN
        <<B64Char(b[1] \div 4), B64Char((b[1] % 4) * 16), "=", "=">>
    ELSE IF Len(b) = 2 THEN
        <<B64Char(b[1] \div 4),
          B64Char((b[1] % 4) * 16 + b[2] \div 16),
          B64Char((b[2] % 16) * 4), "=">>
    ELSE
        <<B64Char(b[1] \div 4),
          B64Char((b[1] % 4) * 16 + b[2] \div 16),
          B64Char((b[2] % 16) * 4 + b[3] \div 64),
          B64Char(b[3] % 64)>>
        \o b64encode(From(b, 4))

\* the list `segments` of build_hl7_message.  now1, now2, now3 are the three successive clock readings.
build_segments(p, bytes, opts, now1, now2, now3, random_suffix) ==
    LET o == IF opts = OptionsNone THEN HL7Options ELSE opts
        pdf_base64 == b64encode(bytes)
    IN  << build_msh(o, now1, now2, random_suffix),
           build_pid(p),
           build_pv1,
           build_obr(o, now3),
           build_obx(pdf_base64) >>

build_hl7_message(segs) ==
    Join(SEGMENT_TERMINATOR, segs) \o SEGMENT_TERMINATOR

(***************************************************************************)
(* Regular expressions of PATTERNS, computed on a text t.  Positions are   *)
(* 1-based; Len(t) + 1 is the end of the text.                             *)
(***************************************************************************)
At(t, i) == IF i \in 1..Len(t) THEN t[i] ELSE ""

\* a literal of a pattern compiled with re.IGNORECASE, at position i
MatchLit(t, i, lit) ==
    /\ i >= 1
    /\ i + Len(lit) - 1 <= Len(t)
    /\ \A k \in 1..Len(lit) : Lower(t[i + k - 1]) = Lower(lit[k])

\* a literal of a case-sensitive pattern, at position i
MatchLitCS(t, i, lit) ==
    /\ i >= 1
    /\ i + Len(lit) - 1 <= Len(t)
    /\ \A k \in 1..Len(lit) : t[i + k - 1] = lit[k]

\* the end of the longest run of characters of a class that starts at i
RunEnd(t, i, Class(_)) ==
    Min({j \in i..(Len(t) + 1) : ~Class(At(t, j))})

\* \s* (greedy)
SkipSpace(t, i) == RunEnd(t, i, IsSpace)

\* \s*\*?\s*\n?\s* (greedy): whitespace, at most one star, whitespace
Skip(t, i) ==
    LET a == SkipSpace(t, i)
        b == IF At(t, a) = "*" THEN a + 1 ELSE a
    IN  SkipSpace(t, b)

\* pattern.search(text) for a pattern that starts with a literal label:
\* the leftmost occurrence of the label after which the rest matches
Search(t, label, Capture(_, _)) ==
    LET hits == {i \in 1..Len(t) :
                    MatchLit(t, i, label) /\ Capture(t, i + Len(label)) # None}
    IN  IF hits = {} THEN None ELSE Capture(t, Min(hits) + Len(label))

\* ([A-Za-z]+) after the skip
CaptureLetters(t, j) ==
    LET s == Skip(t, j)
        e == RunEnd(t, s, IsLetter)
    IN  IF e > s THEN SubSeq(t, s, e - 1) ELSE None

\* (\d{1,2})/(\d{1,2})/(\d{4}) at position s: the three groups and the end, if it matches
DateAt(t, s) ==
    LET shapes == {x \in {1, 2} \X {1, 2} :
            /\ \A k \in 0..(x[1] - 1) : IsDigit(At(t, s + k))
            /\ At(t, s + x[1]) = "/"
            /\ \A k \in 1..x[2] : IsDigit(At(t, s + x[1] + k))
            /\ At(t, s + x[1] + x[2] + 1) = "/"
            /\ \A k \in 2..5 : IsDigit(At(t, s + x[1] + x[2] + k))}
    IN  IF shapes = {} THEN [found |-> FALSE]
        ELSE LET x == CHOOSE z \in shapes : TRUE
                 m == s + x[1] + 1
                 y == m + x[2] + 1
             IN  [found |-> TRUE,
                  day |-> SubSeq(t, s, s + x[1] - 1),
                  month |-> SubSeq(t, m, m + x[2] - 1),
                  year |-> SubSeq(t, y, y + 3),
                  end |-> y + 3]

\* (\d{1,2}\/\d{1,2}\/\d{4}) after the skip
CaptureDob(t, j) ==
    LET s == Skip(t, j)
        d == DateAt(t, s)
    IN  IF d.found THEN SubSeq(t, s, d.end) ELSE None

IsDigitOrSpace(c) == IsDigit(c) \/ IsSpace(c)

MobileMin == 10
MobileMax == 12

\* ([\d\s]{10,12}) after the skip.  The skip is greedy, so the group starts
\* at the first character that is not whitespace; when fewer than 10
\* characters of the class follow, the skip gives whitespace back (never a
\* star it has matched) until the group has 10.
CaptureMobile(t, j) ==
    LET a == SkipSpace(t, j)
        lo == IF At(t, a) = "*" THEN a + 1 ELSE j
        s0 == SkipSpace(t, lo)
        zend == RunEnd(t, s0, IsDigitOrSpace)
        rem == zend - s0
    IN  IF rem >= MobileMin
        THEN SubSeq(t, s0, s0 + (IF rem > MobileMax THEN MobileMax ELSE rem) - 1)
        ELSE IF zend - MobileMin >= lo
             THEN SubSeq(t, zend - MobileMin, zend - 1)
             ELSE None

IsNewline(c) == c = "\n"

\* (?=\n*Postcode|\n*City) at position e
AddressLookahead(t, e) ==
    LET n == RunEnd(t, e, IsNewline)
    IN  \/ MatchLit(t, n, <<"P", "o", "s", "t", "c", "o", "d", "e">>)
        \/ MatchLit(t, n, <<"C", "i", "t", "y">>)

\* (.+?)(?=\n*Postcode|\n*City) with re.DOTALL after the skip: the group is
\* lazy, so it ends at the first position where the lookahead holds; when
\* there is none the skip gives characters back one at a time.
CaptureAddress(t, j) ==
    LET s0 == Skip(t, j)
        ends(s) == {e \in (s + 1)..Len(t) : AddressLookahead(t, e)}
        starts == {s \in j..s0 : s <= Len(t) /\ ends(s) # {}}
    IN  IF starts = {} THEN None
        ELSE LET s == Max(starts) IN SubSeq(t, s, Min(ends(s)) - 1)

\* (\d{4}) after the skip
CapturePostcode(t, j) ==
    LET s == Skip(t, j)
    IN  IF \A k \in 0..3 : IsDigit(At(t, s + k))
        THEN SubSeq(t, s, s + 3) ELSE None

IsLetterOrSpace(c) == IsLetter(c) \/ IsSpace(c)

\* \s*\/?\s*Suburb\s*\*?\s*\n?\s*([A-Za-z\s]+?)(?=\n|State) after "City"
CaptureSuburb(t, j) ==
    LET a == SkipSpace(t, j)
        b == SkipSpace(t, IF At(t, a) = "/" THEN a + 1 ELSE a)
        lo == b + 6
        s0 == Skip(t, lo)
        ends(s) == {e \in (s + 1)..Len(t) :
                       /\ \A k \in s..(e - 1) : IsLetterOrSpace(t[k])
                       /\ \/ t[e] = "\n"
                          \/ MatchLit(t, e, <<"S", "t", "a", "t", "e">>)}
        starts == {s \in lo..s0 : s <= Len(t) /\ ends(s) # {}}
    IN  IF ~MatchLit(t, b, <<"S", "u", "b", "u", "r", "b">>) \/ starts = {}
        THEN None
        ELSE LET s == Max(starts) IN SubSeq(t, s, Min(ends(s)) - 1)

MedicareMin == 10
MedicareMax == 11

\* \.?\s*\*?\s*\n?\s*(\d{10,11}) after "Medicare Card No"
CaptureMedicareNo(t, j) ==
    LET s == Skip(t, IF At(t, j) = "." THEN j + 1 ELSE j)
        e == RunEnd(t, s, IsDigit)
    IN  IF e - s >= MedicareMin
        THEN SubSeq(t, s, s + (IF e - s > MedicareMax THEN MedicareMax ELSE e - s) - 1)
        ELSE None

\* \s*(?:Number)?\s*\*?\s*\n?\s*(\d) after "Medicare Ref"
CaptureMedicareRef(t, j) ==
    LET a == SkipSpace(t, j)
        b == IF MatchLit(t, a, <<"N", "u", "m", "b", "e", "r">>) THEN a + 6 ELSE a
        s == Skip(t, b)
    IN  IF IsDigit(At(t, s)) THEN <<t[s]>> ELSE None

Titles == << <<"M", "r">>, <<"M", "r", "s">>, <<"M", "i", "s", "s">>, <<"M", "s">> >>

IsBlankNotNewline(c) == IsSpace(c) /\ c # "\n"

\* ^\s*(Mr|Mrs|Miss|Ms)\s*$ with re.MULTILINE, tried at line start p:
\* the title matched there, or None
TitleAt(t, p) ==
    LET s == SkipSpace(t, p)
        ok == {n \in 1..4 :
                 /\ MatchLitCS(t, s, Titles[n])
                 /\ At(t, RunEnd(t, s + Len(Titles[n]), IsBlankNotNewline))
                        \in {"", "\n"}}
    IN  IF ok = {} THEN None ELSE Titles[Min(ok)]

\* PATTERNS['title'].search(text): group(1) of the leftmost match, or None
SearchTitle(t) ==
    LET hits == {p \in 1..Len(t) :
                    (p = 1 \/ t[p - 1] = "\n") /\ TitleAt(t, p) # None}
    IN  IF hits = {} THEN None ELSE TitleAt(t, Min(hits))

\* TITLE_TO_SEX.get(title, "U")
TITLE_TO_SEX(title) ==
    IF title = <<"M", "r">> THEN <<"M">>
    ELSE IF title \in {<<"M", "r", "s">>, <<"M", "i", "s", "s">>, <<"M", "s">>}
         THEN <<"F">>
    ELSE <<"U">>

(***************************************************************************)
(* PDF parser.                                                             *)
(***************************************************************************)
\* the text of the pages, as each library concatenates it
RECURSIVE extract_text_from_pdf(_, _)
extract_text_from_pdf(library, pages) ==
    IF pages = <<>> THEN <<>>
    ELSE IF library = "pymupdf"
         THEN Head(pages) \o extract_text_from_pdf(library, Tail(pages))
         ELSE (IF Head(pages) # <<>> THEN Head(pages) \o <<"\n">> ELSE <<>>)
              \o extract_text_from_pdf(library, Tail(pages))

convert_date_to_hl7(date_str) ==
    LET match == DateAt(date_str, 1)
    IN  IF ~match.found THEN DefaultDob
        ELSE match.year \o ZFill2(match.month) \o ZFill2(match.day)

\* POSTCODE_TO_STATE.get(digit, "VIC")
POSTCODE_TO_STATE(digit) ==
    CASE digit = "2" -> <<"N", "S", "W">>
      [] digit = "3" -> <<"V", "I", "C">>
      [] digit = "4" -> <<"Q", "L", "D">>
      [] digit = "5" -> <<"S", "A">>
      [] digit = "6" -> <<"W", "A">>
      [] digit = "7" -> <<"T", "A", "S">>
      [] digit = "0" -> <<"N", "T">>
      [] OTHER -> VIC

infer_state_from_postcode(postcode) ==
    IF ~Truthy(postcode) \/ Len(postcode) # 4 THEN VIC
    ELSE POSTCODE_TO_STATE(postcode[1])

\* match.group(1).strip().replace('\n', ' ').replace('  ', ' '), or None;
\* captured is group(1) of pattern.search(text), None when nothing matched
extract_field(captured) ==
    IF captured # None
    THEN Replace(Replace(Strip(captured), <<"\n">>, <<" ">>),
                 <<" ", " ">>, <<" ">>)
    ELSE None

\* the text is tested for emptiness only, not for whitespace
is_blank_empty_only(t) == t = <<>>

\* not text or not text.strip()
is_blank(t) == t = <<>> \/ Strip(t) = <<>>

\* lines 181-195: the locals after every pattern has been applied
extract_all(t) ==
    LET title_match == SearchTitle(t)
    IN  [first_name |->
            extract_field(Search(t, <<"F", "i", "r", "s", "t", " ", "N", "a",
                                      "m", "e">>, CaptureLetters)),
         last_name |->
            extract_field(Search(t, <<"L", "a", "s", "t", " ", "N", "a", "m",
                                      "e">>, CaptureLetters)),
         dob_raw |->
            extract_field(Search(t, <<"D", "a", "t", "e", " ", "o", "f", " ",
                                      "B", "i", "r", "t", "h">>, CaptureDob)),
         mobile |->
            extract_field(Search(t, <<"M", "o", "b", "i", "l", "e", " ", "P",
                                      "h", "o", "n", "e">>, CaptureMobile)),
         address |->
            extract_field(Search(t, <<"A", "d", "d", "r", "e", "s", "s">>,
                                 CaptureAddress)),
         postcode |->
            extract_field(Search(t, <<"P", "o", "s", "t", "c", "o", "d", "e">>,
                                 CapturePostcode)),
         suburb |->
            extract_field(Search(t, <<"C", "i", "t", "y">>, CaptureSuburb)),
         medicare_no |->
            extract_field(Search(t, <<"M", "e", "d", "i", "c", "a", "r", "e",
                                      " ", "C", "a", "r", "d", " ", "N", "o">>,
                                 CaptureMedicareNo)),
         medicare_ref |->
            extract_field(Search(t, <<"M", "e", "d", "i", "c", "a", "r", "e",
                                      " ", "R", "e", "f">>, CaptureMedicareRef)),
         sex |-> IF title_match # None THEN TITLE_TO_SEX(title_match)
                 ELSE <<"U">>]

\* lines 198-210
build_patient(f) ==
    PatientData(
        Or(f.first_name, UNKNOWN),
        Or(f.last_name, PATIENT),
        IF Truthy(f.dob_raw) THEN convert_date_to_hl7(f.dob_raw) ELSE DefaultDob,
        f.sex,
        f.address,
        f.suburb,
        IF Truthy(f.postcode) THEN infer_state_from_postcode(f.postcode) ELSE None,
        f.postcode,
        IF Truthy(f.mobile) THEN Replace(f.mobile, <<" ">>, <<>>) ELSE None,
        IF Truthy(f.medicare_no) THEN Replace(f.medicare_no, <<" ">>, <<>>)
        ELSE None,
        f.medicare_ref)

\* lines 213-222
generate_warnings(f) ==
    (IF ~Truthy(f.first_name) THEN <<"Could not extract first name">> ELSE <<>>)
    \o (IF ~Truthy(f.last_name) THEN <<"Could not extract last name">> ELSE <<>>)
    \o (IF ~Truthy(f.dob_raw) THEN <<"Could not extract date of birth">> ELSE <<>>)
    \o (IF f.sex = <<"U">> THEN <<"Could not determine sex from title">> ELSE <<>>)
    \o (IF ~Truthy(f.medicare_no) THEN <<"Could not extract Medicare number">>
        ELSE <<>>)

\* success as soon as one of the two names is not its default
success_either_name(p) == p.first_name # UNKNOWN \/ p.last_name # PATIENT

\* line 224
success_of(p) == p.first_name # UNKNOWN /\ p.last_name # PATIENT

\* the locals when no pattern has been applied
NoLocals == [applied |-> FALSE]

\* line 225: the ExtractionResult built from the locals f and the record p
extraction_result(f, p) ==
    [success |-> success_of(p), data |-> p, warnings |-> generate_warnings(f),
     locals |-> [applied |-> TRUE, found |-> f]]

\* lines 198-225
extraction_from(f) == extraction_result(f, build_patient(f))

\* provided is the text extract_text_from_pdf returned, or Raised when it
\* raised.  The value is the ExtractionResult, with the locals next to it.
extract_patient_data(provided) ==
    IF provided = Raised
    THEN [success |-> FALSE, data |-> default_data,
          warnings |-> <<"PDF parsing error">>, locals |-> NoLocals]
    ELSE IF is_blank(provided)
    THEN [success |-> FALSE, data |-> default_data,
          warnings |-> <<"PDF contains no extractable text">>,
          locals |-> NoLocals]
    ELSE extraction_from(extract_all(provided))

(***************************************************************************)
(* Inputs of the model.                                                    *)
(***************************************************************************)
\* the texts page.get_text() may return for one page
PageTexts == {
    <<>>,
    <<" ", "\n">>,
    <<"F", "i", "r", "s", "t", " ", "N", "a", "m", "e", " ", "*", "\n", "J",
      "a", "n", "e", "\n", "L", "a", "s", "t", " ", "N", "a", "m", "e", "\n",
      "D", "o", "e", "\n">>,
    <<"F", "i", "r", "s", "t", " ", "N", "a", "m", "e", "\n", "J", "a", "n", "e",
      "\n">>,
    <<"F", "i", "r", "s", "t", " ", "N", "a", "m", "e", " ", "U", "N", "K",
      "N", "O", "W", "N", "\n", "L", "a", "s", "t", " ", "N", "a", "m", "e",
      "\n", "P", "A", "T", "I", "E", "N", "T", "\n", "M", "r", "s", "\n", "D",
      "a", "t", "e", " ", "o", "f", " ", "B", "i", "r", "t", "h", " ", "5",
      "/", "3", "/", "1", "9", "9", "0", "\n">>,
    <<"M", "o", "b", "i", "l", "e", " ", "P", "h", "o", "n", "e", " ", "0",
      "4", "1", "2", "\t", "3", "4", "5", " ", "6", "7", "8", "\n", "M", "e",
      "d", "i", "c", "a", "r", "e", " ", "C", "a", "r", "d", " ", "N", "o",
      ".", " ", "1", "2", "3", "4", "5", "6", "7", "8", "9", "0", "\n", "M",
      "e", "d", "i", "c", "a", "r", "e", " ", "R", "e", "f", " ", "N", "u",
      "m", "b", "e", "r", " ", "2", "\n", "A", "d", "d", "r", "e", "s", "s",
      " ", "1", " ", " ", "M", "a", "i", "n", " ", "S", "t", "\n", "\n", "\n",
      "K", "e", "w", "\n", "P", "o", "s", "t", "c", "o", "d", "e", " ", "3",
      "1", "2", "3", "\n", "C", "i", "t", "y", " ", "/", " ", "S", "u", "b",
      "u", "r", "b", " ", "K", "e", "w", "\n", "S", "t", "a", "t", "e", " ",
      "V", "I", "C", "\n">> }

\* the documents: up to MaxPages pages
Documents == UNION {[1..n -> PageTexts] : n \in 0..MaxPages}

\* the binary contents: up to MaxBytes bytes
ByteValues == {13}
ByteStrings == Strings(ByteValues, MaxBytes)

\* the suffixes random.choices may draw
Suffixes == {<<"A", "A", "A", "A">>, <<"Z", "9", "0", "K">>}

\* the records handed to build_hl7_message when it is called on its own
PatientRecords ==
    {PatientData(fn, ln, <<"1", "9", "9", "0", "0", "3", "0", "5">>, <<"F">>,
                 ad, None, None, None, ph, mc, None) :
        fn \in {<<"J", "a", "n", "e">>, <<"A", "|", "B">>},
        ln \in {<<"D", "o", "e">>, <<"D", "^", "\n", "e">>},
        ad \in {None, <<"1", " ", "M">>, <<"1", "\r", "M">>},
        ph \in {None, <<"0", "4", "&", "1">>},
        mc \in {None, <<"1", "2", "3", "4", "5", "6", "7", "8", "9", "0">>}}

\* the options handed to build_hl7_message when it is called on its own
OptionValues ==
    {OptionsNone} \cup
    {[HL7Options EXCEPT !.sending_application = sa, !.document_title = dt] :
        sa \in {<<"M", "E", "D">>, <<"A", "|", "B">>},
        dt \in {<<"F", "o", "r", "m">>, <<"A", "|", "^", "B">>}}

Idle == NotRun

(***************************************************************************)
(* The command-line run: main.                                             *)
(***************************************************************************)
Init ==
    /\ pc = "main"
    /\ argc \in 1..3
    /\ env \in [input_exists : BOOLEAN, PDF_LIBRARY : {"pymupdf", "pdfplumber"}]
    /\ text = Idle
    /\ fields = NoLocals
    /\ result = Idle
    /\ patient = Idle
    /\ options = Idle
    /\ pdf_bytes = Idle
    /\ segments = Idle
    /\ hl7_message = Idle
    /\ clock = 0
    /\ exit_code = Idle
    /\ arg = Idle
    /\ ret = Idle

\* sys.exit(code)
Exit(code) == pc' = "exit" /\ exit_code' = code

\* lines 416-422
ParseArguments ==
    /\ pc = "main"
    /\ IF argc < 2 THEN Exit(1) ELSE pc' = "validate" /\ UNCHANGED exit_code
    /\ UNCHANGED <<argc, env, text, fields, result, patient, options,
                   pdf_bytes, segments, hl7_message, clock, arg, ret>>

\* lines 425-436
ValidateInput ==
    /\ pc = "validate"
    /\ IF ~env.input_exists THEN Exit(2)
       ELSE pc' = "extract" /\ UNCHANGED exit_code
    /\ UNCHANGED <<argc, env, text, fields, result, patient, options,
                   pdf_bytes, segments, hl7_message, clock, arg, ret>>

\* what extract_text_from_pdf does on the input file: it returns the text of
\* some document, or raises when the file cannot be parsed
Provided(library) ==
    {extract_text_from_pdf(library, d) : d \in Documents} \cup {Raised}

\* lines 439-456: extract_patient_data never raises, so the handler of line
\* 454 is not entered
ExtractPatientData ==
    /\ pc = "extract"
    /\ \E provided \in Provided(env.PDF_LIBRARY) :
         \E r \in {extract_patient_data(provided)} :
             /\ text' = provided
             /\ fields' = r.locals
             /\ result' = [success |-> r.success, data |-> r.data,
                           warnings |-> r.warnings]
    /\ pc' = "read"
    /\ UNCHANGED <<argc, env, patient, options, pdf_bytes, segments,
                   hl7_message, clock, exit_code, arg, ret>>

\* lines 459-461
ReadPdfBytes ==
    /\ pc = "read"
    /\ \E b \in ByteStrings : pdf_bytes' = b
    /\ pc' = "build"
    /\ UNCHANGED <<argc, env, text, fields, result, patient, options,
                   segments, hl7_message, clock, exit_code, arg, ret>>

\* lines 462-464
ReadPdfFails ==
    /\ pc = "read"
    /\ Exit(3)
    /\ UNCHANGED <<argc, env, text, fields, result, patient, options,
                   pdf_bytes, segments, hl7_message, clock, arg, ret>>

\* build_hl7_message(p, pdf_bytes, o): the clock is read three times and may
\* advance between the readings
Build(p, o) ==
    \E now1 \in clock..MaxClock :
      \E now2 \in now1..MaxClock :
        \E now3 \in now2..MaxClock :
          \E random_suffix \in Suffixes :
            LET segs == build_segments(p, pdf_bytes, o, now1, now2, now3,
                                       random_suffix)
            IN  /\ segments' = segs
                /\ hl7_message' = build_hl7_message(segs)
                /\ patient' = p
                /\ options' = (IF o = OptionsNone THEN HL7Options ELSE o)
                /\ clock' = now3

\* lines 467-471: nothing in build_hl7_message raises
BuildMessage ==
    /\ pc = "build"
    /\ Build(result.data, OptionsNone)
    /\ pc' = "write"
    /\ UNCHANGED <<argc, env, text, fields, result, pdf_bytes, exit_code,
                   arg, ret>>

\* lines 474-479, 484
WriteOutput ==
    /\ pc = "write"
    /\ Exit(0)
    /\ UNCHANGED <<argc, env, text, fields, result, patient, options,
                   pdf_bytes, segments, hl7_message, clock, arg, ret>>

\* lines 480-482
WriteOutputFails ==
    /\ pc = "write"
    /\ Exit(4)
    /\ UNCHANGED <<argc, env, text, fields, result, patient, options,
                   pdf_bytes, segments, hl7_message, clock, arg, ret>>

Next ==
    \/ ParseArguments
    \/ ValidateInput
    \/ ExtractPatientData
    \/ ReadPdfBytes
    \/ ReadPdfFails
    \/ BuildMessage
    \/ WriteOutput
    \/ WriteOutputFails

Spec == Init /\ [][Next]_vars

(***************************************************************************)
(* build_hl7_message called on its own, with any record and options.       *)
(***************************************************************************)
InitBuild ==
    /\ pc = "call_build"
    /\ patient \in PatientRecords
    /\ options \in OptionValues
    /\ pdf_bytes \in ByteStrings
    /\ clock = 0
    /\ argc = Idle /\ env = Idle /\ text = Idle /\ fields = Idle
    /\ result = Idle /\ segments = Idle /\ hl7_message = Idle
    /\ exit_code = Idle /\ arg = Idle /\ ret = Idle

CallBuild ==
    /\ pc = "call_build"
    /\ Build(patient, options)
    /\ pc' = "built"
    /\ UNCHANGED <<argc, env, text, fields, result, pdf_bytes, exit_code,
                   arg, ret>>

NextBuild == CallBuild

SpecBuild == InitBuild /\ [][NextBuild]_vars

(***************************************************************************)
(* escape_hl7 and convert_date_to_hl7 called on their own.                 *)
(***************************************************************************)
EscapeAlphabet == {"\\", "|", "^", "~", "&", "E"}

InitEscape ==
    /\ pc = "call_escape"
    /\ arg \in Strings(EscapeAlphabet, MaxLen)
    /\ ret = Idle
    /\ argc = Idle /\ env = Idle /\ text = Idle /\ fields = Idle
    /\ result = Idle /\ patient = Idle /\ options = Idle /\ pdf_bytes = Idle
    /\ segments = Idle /\ hl7_message = Idle /\ clock = 0 /\ exit_code = Idle

CallEscape ==
    /\ pc = "call_escape"
    /\ ret' = escape_hl7(arg)
    /\ pc' = "ret_escape"
    /\ UNCHANGED <<argc, env, text, fields, result, patient, options,
                   pdf_bytes, segments, hl7_message, clock, exit_code, arg>>

NextEscape == CallEscape

SpecEscape == InitEscape /\ [][NextEscape]_vars

\* date strings: a day, a separator, a month, a separator, a year, a tail
DateInputs ==
    {d \o s1 \o m \o s2 \o y \o tl :
        d \in {<<"5">>, <<"0", "5">>, <<"3", "1">>, <<"1", "2", "3">>, <<>>},
        s1 \in {<<"/">>, <<"-">>},
        m \in {<<"3">>, <<"0", "3">>, <<"0", "2">>, <<"1", "3">>},
        s2 \in {<<"/">>, <<" ">>},
        y \in {<<"1", "9", "9", "0">>, <<"2", "0", "2", "0">>, <<"1", "9", "9">>},
        tl \in {<<>>, <<"x">>, <<"7">>}}

InitDate ==
    /\ pc = "call_date"
    /\ arg \in DateInputs
    /\ ret = Idle
    /\ argc = Idle /\ env = Idle /\ text = Idle /\ fields = Idle
    /\ result = Idle /\ patient = Idle /\ options = Idle /\ pdf_bytes = Idle
    /\ segments = Idle /\ hl7_message = Idle /\ clock = 0 /\ exit_code = Idle

CallConvertDate ==
    /\ pc = "call_date"
    /\ ret' = convert_date_to_hl7(arg)
    /\ pc' = "ret_date"
    /\ UNCHANGED <<argc, env, text, fields, result, patient, options,
                   pdf_bytes, segments, hl7_message, clock, exit_code, arg>>

NextDate == CallConvertDate

SpecDate == InitDate /\ [][NextDate]_vars

(***************************************************************************)
(* Properties.                                                             *)
(***************************************************************************)
Reserved == {"\\", "|", "^", "~", "&"}

HasNone(str, chars) == \A i \in 1..Len(str) : str[i] \notin chars

\* extract_patient_data has returned
Extracted ==
    \/ pc \in {"read", "build", "write"}
    \/ pc = "exit" /\ exit_code \in {0, 3, 4}

\* C1: the message returned by build_hl7_message contains exactly 5 carriage
\* returns, the last one being its final character, and no linefeed.
C1_FiveTerminators ==
    pc = "built" =>
        /\ Count(hl7_message, "\r") = 5
        /\ Count(hl7_message, "\n") = 0
        /\ hl7_message[Len(hl7_message)] = "\r"

\* C2: no free-text value (names, address, suburb, phone, document title,
\* sending/receiving application and facility) adds a field or a component:
\* MSH keeps its 18 fields, PID its 14 and OBR its 26; the patient name keeps
\* 2 components, the report identifier 2 and the service identifier 3.
C2_AllValuesEscaped ==
    pc = "built" =>
        LET msh == Split(segments[1], "|")
            pid == Split(segments[2], "|")
            obr == Split(segments[4], "|")
        IN  /\ Len(msh) = 18
            /\ Len(pid) = 14
            /\ Len(obr) = 26
            /\ Len(Split(pid[6], "^")) = 2
            /\ Len(Split(obr[4], "^")) = 2
            /\ Len(Split(obr[5], "^")) = 3

\* each character replaced on its own, in one pass
EscapeChar(c) ==
    CASE c = "\\" -> <<"\\", "E", "\\">>
      [] c = "|" -> <<"\\", "F", "\\">>
      [] c = "^" -> <<"\\", "S", "\\">>
      [] c = "~" -> <<"\\", "R", "\\">>
      [] c = "&" -> <<"\\", "T", "\\">>
      [] OTHER -> <<c>>

RECURSIVE OnePass(_)
OnePass(str) ==
    IF str = <<>> THEN <<>> ELSE EscapeChar(Head(str)) \o OnePass(Tail(str))

\* the number of escape tokens of a string in which every reserved character
\* lies inside a token; negative when one lies outside
RECURSIVE Tokens(_)
Tokens(str) ==
    IF str = <<>> THEN 0
    ELSE IF Head(str) = "\\"
         THEN IF /\ Len(str) >= 3
                 /\ str[2] \in {"E", "F", "S", "R", "T"}
                 /\ str[3] = "\\"
              THEN 1 + Tokens(From(str, 4))
              ELSE 0 - 1000
    ELSE IF Head(str) \in Reserved THEN 0 - 1000
    ELSE Tokens(Tail(str))

OneOfEach(str) == \A c \in Reserved : Count(str, c) = 1

\* C3: escape_hl7 returns what replacing each character independently in
\* one pass returns; a string without reserved characters is unchanged; a
\* string with one of each reserved character yields exactly five tokens and
\* no reserved character outside a token.
C3_EscapeIsOnePass ==
    pc = "ret_escape" =>
        /\ ret = OnePass(arg)
        /\ HasNone(arg, Reserved) => ret = arg
        /\ OneOfEach(arg) => Tokens(ret) = 5

C3_Witness ==
    /\ pc = "ret_escape"
    /\ OneOfEach(arg)
    /\ Len(arg) = 5
    /\ arg[5] = "\\"

\* the whole string is one or two digits, /, one or two digits, /, 4 digits
IsDateForm(str) ==
    LET parts == Split(str, "/")
    IN  /\ Len(parts) = 3
        /\ Len(parts[1]) \in {1, 2} /\ HasNone(parts[1], {"/"})
        /\ Len(parts[2]) \in {1, 2}
        /\ Len(parts[3]) = 4
        /\ \A k \in 1..3 : \A i \in 1..Len(parts[k]) : IsDigit(parts[k][i])

\* C4: convert_date_to_hl7 returns year, month, day as 8 digits for an input
\* of the form DD/MM/YYYY and the sentinel 19000101 for every other input.
C4_DateOrSentinel ==
    pc = "ret_date" =>
        /\ Len(ret) = 8
        /\ \A i \in 1..Len(ret) : IsDigit(ret[i])
        /\ IF IsDateForm(arg)
           THEN LET parts == Split(arg, "/")
                IN  ret = parts[3] \o ZFill2(parts[2]) \o ZFill2(parts[1])
           ELSE ret = DefaultDob

AllWhitespace(str) == \A i \in 1..Len(str) : str[i] \in Whitespace

\* C5: for an empty or whitespace-only text extract_patient_data returns
\* success = false, exactly one warning and the defaulted record without
\* applying any pattern; when obtaining the text raises, it returns
\* success = false, the defaulted record and a warning.
C5_BlankOrRaised ==
    Extracted =>
        /\ (text # Raised /\ AllWhitespace(text)) =>
              /\ result.success = FALSE
              /\ Len(result.warnings) = 1
              /\ result.data = default_data
              /\ ~fields.applied
        /\ text = Raised =>
              /\ result.success = FALSE
              /\ result.data = default_data
              /\ Len(result.warnings) >= 1

C5_Witness ==
    /\ Extracted
    /\ text # Raised
    /\ text # <<>>
    /\ AllWhitespace(text)

\* C6: the run ends with exit code 1 for invalid arguments, 2 for a missing
\* input file, 3 when parsing the PDF fails, 4 for an output write error and 0
\* only on success; a run in which parsing the PDF fails never ends with 0.
C6_ExitCodes ==
    pc = "exit" =>
        /\ exit_code \in {0, 1, 2, 3, 4}
        /\ argc < 2 <=> exit_code = 1
        /\ (argc >= 2 /\ ~env.input_exists) <=> exit_code = 2
        /\ text = Raised => exit_code = 3

\* C7: for options without reserved characters OBR split on | has 26
\* elements: OBR, 1, empty, RPT<timestamp>^<sending application>,
\* PDF^<document title>^L, 2 empty, the timestamp, 14 empty, the same
\* timestamp, 2 empty, F.
C7_ObrLayout ==
    (pc = "built"
     /\ \A k \in DOMAIN options : HasNone(options[k], Reserved)) =>
        LET obr == Split(segments[4], "|")
            ts == obr[8]
        IN  /\ Len(obr) = 26
            /\ obr[1] = <<"O", "B", "R">>
            /\ obr[2] = <<"1">>
            /\ obr[3] = <<>>
            /\ Len(ts) = 14
            /\ \A i \in 1..Len(ts) : IsDigit(ts[i])
            /\ obr[4] = <<"R", "P", "T">> \o ts \o <<"^">>
                        \o options.sending_application
            /\ obr[5] = <<"P", "D", "F", "^">> \o options.document_title
                        \o <<"^", "L">>
            /\ \A k \in {6, 7} \cup (9..22) \cup {24, 25} : obr[k] = <<>>
            /\ obr[23] = ts
            /\ obr[26] = <<"F">>

\* the clock advanced between the header and the observation request
C7_Witness ==
    /\ pc = "built"
    /\ \A k \in DOMAIN options : HasNone(options[k], Reserved)
    /\ Split(segments[1], "|")[7] # Split(segments[4], "|")[8]

\* C8: for a text that is not blank, success is true only when both names
\* were overridden from their defaults by an extracted value, and it is
\* decided by the two names alone.
C8_SuccessIsNames ==
    (Extracted /\ text # Raised /\ ~AllWhitespace(text)) =>
        LET f == fields.found
            overridden ==
                /\ f.first_name # None
                /\ result.data.first_name = f.first_name
                /\ result.data.first_name # UNKNOWN
                /\ f.last_name # None
                /\ result.data.last_name = f.last_name
                /\ result.data.last_name # PATIENT
        IN  /\ result.success => overridden
            /\ result.success = overridden

\* success with no date of birth, sex, address, phone or Medicare number
C8_Witness ==
    /\ Extracted
    /\ text # Raised
    /\ ~AllWhitespace(text)
    /\ result.success
    /\ result.data.dob = DefaultDob
    /\ result.data.sex = <<"U">>
    /\ result.data.medicare_no = None
    /\ Len(result.warnings) = 3

\* C9: a phone or medicare_no stored in the record contains no whitespace
\* character of any kind.
C9_NoWhitespaceInNumbers ==
    Extracted =>
        /\ result.data.phone # None => HasNone(result.data.phone, Whitespace)
        /\ result.data.medicare_no # None =>
              HasNone(result.data.medicare_no, Whitespace)

\* C10: a value returned by extract_field contains no line break and no two
\* adjacent spaces.
C10_NoAdjacentSpaces ==
    (Extracted /\ fields.applied) =>
        \A k \in DOMAIN fields.found :
            LET v == fields.found[k]
            IN  v # None =>
                  /\ HasNone(v, {"\n"})
                  /\ \A i \in 1..(Len(v) - 1) : ~(v[i] = " " /\ v[i + 1] = " ")

====
